---- MODULE Spec2Model ----
(***************************************************************************)
(* Model of main(cfg) of main.py: the training / evaluation orchestrator   *)
(* of YOWO.  One action per statement group of main; collaborators that    *)
(* main only calls (YOWO, torch.load, train, test, save_checkpoint,        *)
(* adjust_learning_rate) are modelled by their outcomes.                   *)
(***************************************************************************)
EXTENDS Integers, Sequences, FiniteSets, TLC

\* ---------------------------------------------------------------- bounds
MaxEpoch == 3
MaxScore == 2
MaxRuns == 2

Epochs == 1..MaxEpoch
Scores == 0..MaxScore

\* ------------------------------------------------------------ configuration
Datasets == {"ucf24", "jhmdb21", "ava", "kinetics"}

\* Paths that cfg.TRAIN.RESUME_PATH may name.  "" is the unset default,
\* "missing.pth" does not exist, "backup_dir" is a directory, "corrupt.pth"
\* is a truncated file, "other.pth" is an operator-supplied file, "latest" and
\* "best" are the two slots save_checkpoint writes in cfg.BACKUP_DIR.
Slots == {"latest", "best"}
Files == Slots \cup {"other.pth"}
FirstPaths == {"", "missing.pth", "backup_dir", "corrupt.pth", "other.pth"}
ResumePaths == FirstPaths \cup Slots

VARIABLES
    cfg,          \* the configuration object; main overwrites BEGIN_EPOCH
    given,        \* cfg as it was handed to main (never written by main)
    pc,           \* position of main
    error,        \* why the process died, "" while it has not
    model,        \* [built, params]: params = epochs trained on, in order
    optimizer,    \* [built, lr, steps]
    best_score,
    bound,        \* are the locals train / test / loss_module bound
    epoch,        \* the loop variable
    score,        \* last value returned by test inside the loop
    fs,           \* file name -> <<>> (absent) or <<checkpoint record>>
    loaded,       \* <<>> or <<the checkpoint torch.load returned>>
    lrAdjusts,    \* epochs adjust_learning_rate was called with, in order
    trainCalls,   \* epochs train was called with, in order
    evalCalls,    \* epochs test was called with, in order
    writes,       \* [slot, rec] written by save_checkpoint, in order
    run           \* number of the current invocation of main

vars == <<cfg, given, pc, error, model, optimizer, best_score, bound, epoch,
          score, fs, loaded, lrAdjusts, trainCalls, evalCalls, writes, run>>

\* ------------------------------------------------------------------ helpers
Range(b, e) == [i \in 1..(IF e >= b THEN e - b + 1 ELSE 0) |-> b + i - 1]

Last(s) == s[Len(s)]

SeqMax(s, floor) ==
    LET v == {floor} \cup {s[i] : i \in 1..Len(s)}
    IN  CHOOSE m \in v : \A x \in v : x <= m

\* osp.exists in place of osp.isfile: true of a directory too
exists(path) ==
    CASE path \in {"", "missing.pth"} -> FALSE
      [] path \in {"backup_dir", "corrupt.pth"} -> TRUE
      [] OTHER -> fs[path] # <<>>
\* osp.isfile(cfg.TRAIN.RESUME_PATH)
isfile(path) ==
    CASE path \in {"", "missing.pth", "backup_dir"} -> FALSE
      [] path = "corrupt.pth" -> TRUE
      [] OTHER -> fs[path] # <<>>

\* torch.load(path) returns a checkpoint (it raises on anything else)
Loadable(path) == path \in Files /\ fs[path] # <<>>

\* the stored epoch itself: the checkpointed epoch would run again
ResumeEpochStored(checkpoint) == checkpoint.epoch
\* cfg.TRAIN.BEGIN_EPOCH = checkpoint['epoch'] + 1
ResumeEpoch(checkpoint) == checkpoint.epoch + 1

\* the flag never read: every run trains
EvaluateIgnored(c) == FALSE
\* if cfg.TRAIN.EVALUATE: ... else: ...
EvaluateOnly(c) == c.EVALUATE

\* the value adjust_learning_rate stores in every parameter group for an
\* epoch: a function of the epoch alone, denoted by the epoch (0 = the
\* rate the optimizer was constructed with)
adjust_learning_rate(opt, e) == [opt EXCEPT !.lr = e]

\* model.state_dict() / optimizer.state_dict()
OptState(opt) == [lr |-> opt.lr, steps |-> opt.steps]

\* the dictionary with the epoch to run next in place of the one just run
StateNextEpoch(e, m, opt, s) ==
    [epoch |-> e + 1, state_dict |-> m.params, optimizer |-> OptState(opt),
     score |-> s]
\* the dictionary main builds for save_checkpoint
State(e, m, opt, s) ==
    [epoch |-> e, state_dict |-> m.params, optimizer |-> OptState(opt),
     score |-> s]

\* a tie counted as a new best
IsBestOrTie(s, best) == s >= best
\* is_best = score > best_score
IsBest(s, best) == s > best

\* range(BEGIN_EPOCH, END_EPOCH): the end epoch left out
InRangeOpen(e, c) == e < c.END_EPOCH
\* range(cfg.TRAIN.BEGIN_EPOCH, cfg.TRAIN.END_EPOCH + 1) has a next element
InRange(e, c) == e < c.END_EPOCH + 1

\* the files after save_checkpoint(state, is_best, ...)
save_checkpoint(files, rec, isBest) ==
    [files EXCEPT !["latest"] = <<rec>>,
                  !["best"] = IF isBest THEN <<rec>> ELSE @]

\* what save_checkpoint appends to the write log
SaveLog(rec, isBest) ==
    <<[slot |-> "latest", rec |-> rec]>> \o
    (IF isBest THEN <<[slot |-> "best", rec |-> rec]>> ELSE <<>>)

\* checkpoint records an operator may supply in other.pth
Supplied ==
    {State(k, [params |-> Range(1, k)],
           [lr |-> k, steps |-> Range(1, k)], s) : k \in Epochs, s \in Scores}

Configs ==
    [DATASET : Datasets, EVALUATE : BOOLEAN, BEGIN_EPOCH : Epochs,
     END_EPOCH : Epochs, RESUME_PATH : FirstPaths]

NoModel == [built |-> FALSE, params |-> <<>>]
NoOptimizer == [built |-> FALSE, lr |-> 0, steps |-> <<>>]

\* --------------------------------------------------------------------- Init
Init ==
    /\ cfg \in Configs
    /\ given = cfg
    /\ pc = "create_model"
    /\ error = ""
    /\ model = NoModel
    /\ optimizer = NoOptimizer
    /\ best_score = 0
    /\ bound = FALSE
    /\ epoch = 0
    /\ score = 0
    /\ fs \in [Files -> {<<>>} \cup {<<r>> : r \in Supplied}]
    /\ fs["latest"] = <<>> /\ fs["best"] = <<>>
    /\ (cfg.RESUME_PATH # "other.pth" => fs["other.pth"] = <<>>)
    /\ loaded = <<>>
    /\ lrAdjusts = <<>>
    /\ trainCalls = <<>>
    /\ evalCalls = <<>>
    /\ writes = <<>>
    /\ run = 1

\* a procedure error caught and the cycle carried on to the checkpoint
DieCaught(why) ==
    /\ error' = why
    /\ pc' = IF why = "procedure" THEN "save" ELSE "failed"
\* an exception leaves main: nothing catches it, the process terminates
Die(why) == pc' = "failed" /\ error' = why

\* ------------------------------------------------------------------ actions
\* lines 26-32: model = YOWO(cfg); model.cuda(); nn.DataParallel(model)
CreateModel ==
    /\ pc = "create_model"
    /\ \/ /\ model' = [built |-> TRUE, params |-> <<>>]
          /\ pc' = "create_optimizer"
          /\ UNCHANGED error
       \/ /\ Die("model construction")
          /\ UNCHANGED model
    /\ UNCHANGED <<cfg, given, optimizer, best_score, bound, epoch, score, fs,
                   loaded, lrAdjusts, trainCalls, evalCalls, writes, run>>

\* lines 34-46: seed, optimizer = Adam(...), best_score = 0
CreateOptimizer ==
    /\ pc = "create_optimizer"
    /\ optimizer' = [built |-> TRUE, lr |-> 0, steps |-> <<>>]
    /\ best_score' = 0
    /\ pc' = "resume"
    /\ UNCHANGED <<cfg, given, error, model, bound, epoch, score, fs, loaded,
                   lrAdjusts, trainCalls, evalCalls, writes, run>>

\* lines 49-62: if osp.isfile(RESUME_PATH): load and restore
Resume ==
    /\ pc = "resume"
    /\ \/ /\ isfile(cfg.RESUME_PATH)
          /\ ~Loadable(cfg.RESUME_PATH)
          /\ Die("corrupt checkpoint")
          /\ UNCHANGED <<cfg, best_score, model, optimizer, loaded>>
       \/ /\ isfile(cfg.RESUME_PATH)
          /\ Loadable(cfg.RESUME_PATH)
          /\ LET checkpoint == fs[cfg.RESUME_PATH][1] IN
             /\ cfg' = [cfg EXCEPT !.BEGIN_EPOCH = ResumeEpoch(checkpoint)]
             /\ best_score' = checkpoint.score
             /\ model' = [model EXCEPT !.params = checkpoint.state_dict]
             /\ optimizer' = [optimizer EXCEPT
                                !.lr = checkpoint.optimizer.lr,
                                !.steps = checkpoint.optimizer.steps]
             /\ loaded' = <<checkpoint>>
          /\ pc' = "dataset"
          /\ UNCHANGED error
       \/ /\ ~isfile(cfg.RESUME_PATH)
          /\ pc' = "dataset"
          /\ UNCHANGED <<cfg, best_score, model, optimizer, loaded, error>>
    /\ UNCHANGED <<given, bound, epoch, score, fs, lrAdjusts, trainCalls,
                   evalCalls, writes, run>>

\* lines 64-88: assert on the dataset, then loaders, loss, train and test
\* for ucf24 / jhmdb21 only
SelectDataset ==
    /\ pc = "dataset"
    /\ \/ /\ cfg.DATASET \notin {"ucf24", "jhmdb21", "ava"}
          /\ Die("invalid dataset")
          /\ UNCHANGED bound
       \/ /\ cfg.DATASET \in {"ucf24", "jhmdb21"}
          /\ bound' = TRUE
          /\ pc' = "schedule"
          /\ UNCHANGED error
       \/ /\ cfg.DATASET = "ava"
          /\ pc' = "schedule"
          /\ UNCHANGED <<bound, error>>
    /\ UNCHANGED <<cfg, given, model, optimizer, best_score, epoch, score, fs,
                   loaded, lrAdjusts, trainCalls, evalCalls, writes, run>>

\* lines 91-96: if cfg.TRAIN.EVALUATE: test(cfg, 0, ...) else: enter the loop
Schedule ==
    /\ pc = "schedule"
    /\ \/ /\ EvaluateOnly(cfg) /\ ~bound
          /\ Die("UnboundLocalError")
          /\ UNCHANGED <<evalCalls, epoch>>
       \/ /\ EvaluateOnly(cfg) /\ bound
          /\ evalCalls' = Append(evalCalls, 0)
          /\ \/ pc' = "done" /\ UNCHANGED error
             \/ Die("procedure")
          /\ UNCHANGED epoch
       \/ /\ ~EvaluateOnly(cfg)
          /\ epoch' = cfg.BEGIN_EPOCH
          /\ pc' = "for"
          /\ UNCHANGED <<evalCalls, error>>
    /\ UNCHANGED <<cfg, given, model, optimizer, best_score, bound, score, fs,
                   loaded, lrAdjusts, trainCalls, writes, run>>

\* lines 96-98: next element of the range, then adjust_learning_rate
AdjustLR ==
    /\ pc = "for"
    /\ \/ /\ InRange(epoch, cfg)
          /\ optimizer' = adjust_learning_rate(optimizer, epoch)
          /\ lrAdjusts' = Append(lrAdjusts, epoch)
          /\ pc' = "train"
       \/ /\ ~InRange(epoch, cfg)
          /\ pc' = "done"
          /\ UNCHANGED <<optimizer, lrAdjusts>>
    /\ UNCHANGED <<cfg, given, error, model, best_score, bound, epoch, score,
                   fs, loaded, trainCalls, evalCalls, writes, run>>

\* lines 101-102: train(cfg, epoch, model, train_loader, loss_module, optimizer)
Train ==
    /\ pc = "train"
    /\ \/ /\ ~bound
          /\ Die("UnboundLocalError")
          /\ UNCHANGED <<model, optimizer, trainCalls>>
       \/ /\ bound
          /\ trainCalls' = Append(trainCalls, epoch)
          /\ \/ /\ model' = [model EXCEPT !.params = Append(@, epoch)]
                /\ optimizer' = [optimizer EXCEPT !.steps = Append(@, epoch)]
                /\ pc' = "test"
                /\ UNCHANGED error
             \/ /\ Die("procedure")
                /\ UNCHANGED <<model, optimizer>>
    /\ UNCHANGED <<cfg, given, best_score, bound, epoch, score, fs, loaded,
                   lrAdjusts, evalCalls, writes, run>>

\* lines 104-105: score = test(cfg, epoch, model, test_loader)
Test ==
    /\ pc = "test"
    /\ evalCalls' = Append(evalCalls, epoch)
    /\ \/ /\ \E s \in Scores : score' = s
          /\ pc' = "save"
          /\ UNCHANGED error
       \/ /\ Die("procedure")
          /\ UNCHANGED score
    /\ UNCHANGED <<cfg, given, model, optimizer, best_score, bound, epoch, fs,
                   loaded, lrAdjusts, trainCalls, writes, run>>

\* lines 107-120: is_best, best_score, state, save_checkpoint
Save ==
    /\ pc = "save"
    /\ LET is_best == IsBest(score, best_score)
           state == State(epoch, model, optimizer, score)
       IN  /\ best_score' = IF is_best THEN score ELSE best_score
           /\ \/ /\ fs' = save_checkpoint(fs, state, is_best)
                 /\ writes' = writes \o SaveLog(state, is_best)
                 /\ epoch' = epoch + 1
                 /\ pc' = "for"
                 /\ UNCHANGED error
              \/ /\ Die("persistence")
                 /\ UNCHANGED <<fs, writes, epoch>>
    /\ UNCHANGED <<cfg, given, model, optimizer, bound, score, loaded,
                   lrAdjusts, trainCalls, evalCalls, run>>

\* the operator re-invokes the program with the same configuration file and
\* backup directory, choosing the resume path and the evaluate flag
Relaunch ==
    /\ pc \in {"done", "failed"}
    /\ run < MaxRuns
    /\ \E p \in ResumePaths, ev \in BOOLEAN :
          cfg' = [given EXCEPT !.RESUME_PATH = p, !.EVALUATE = ev]
    /\ given' = cfg'
    /\ pc' = "create_model"
    /\ error' = ""
    /\ model' = NoModel
    /\ optimizer' = NoOptimizer
    /\ best_score' = 0
    /\ bound' = FALSE
    /\ epoch' = 0
    /\ score' = 0
    /\ loaded' = <<>>
    /\ lrAdjusts' = <<>>
    /\ trainCalls' = <<>>
    /\ evalCalls' = <<>>
    /\ writes' = <<>>
    /\ run' = run + 1
    /\ UNCHANGED fs

Next ==
    \/ CreateModel
    \/ CreateOptimizer
    \/ Resume
    \/ SelectDataset
    \/ Schedule
    \/ AdjustLR
    \/ Train
    \/ Test
    \/ Save

Spec == Init /\ [][Next]_vars

NextChain == Next \/ Relaunch

SpecChain == Init /\ [][NextChain]_vars

\* ------------------------------------------------------- properties: helpers
Trainable == {"ucf24", "jhmdb21"}

WritesTo(slot) == SelectSeq(writes, LAMBDA w : w.slot = slot)

ScoresOf(ws) == [i \in 1..Len(ws) |-> ws[i].rec.score]

EpochsOf(ws) == [i \in 1..Len(ws) |-> ws[i].rec.epoch]

\* the best score the loop starts from: the loaded one, or the initial 0
Seed == IF loaded # <<>> THEN loaded[1].score ELSE 0

\* s is the run of consecutive epochs that starts at b
ConsecutiveFrom(s, b) == s = Range(b, b + Len(s) - 1)

InLoop == pc \in {"for", "train", "test", "save"}

\* ----------------------------------------------------------------------- C1
\* C1: in training mode on ucf24 / jhmdb21, with b = cfg.TRAIN.BEGIN_EPOCH as
\* the loop reads it and e = cfg.TRAIN.END_EPOCH, train and test are only ever
\* called for consecutive epochs from b, never beyond e, and a run that
\* completes has called each exactly once for b, b+1, ..., e: e - b + 1
\* cycles when b <= e.
Thm_C1 ==
    (~cfg.EVALUATE /\ cfg.DATASET \in Trainable) =>
        /\ ConsecutiveFrom(trainCalls, cfg.BEGIN_EPOCH)
        /\ ConsecutiveFrom(evalCalls, cfg.BEGIN_EPOCH)
        /\ \A i \in 1..Len(trainCalls) : trainCalls[i] <= cfg.END_EPOCH
        /\ pc = "done" =>
              /\ trainCalls = Range(cfg.BEGIN_EPOCH, cfg.END_EPOCH)
              /\ evalCalls = Range(cfg.BEGIN_EPOCH, cfg.END_EPOCH)
              /\ cfg.BEGIN_EPOCH <= cfg.END_EPOCH =>
                    /\ Len(trainCalls) = cfg.END_EPOCH - cfg.BEGIN_EPOCH + 1
                    /\ Len(evalCalls) = cfg.END_EPOCH - cfg.BEGIN_EPOCH + 1

Wit_C1 ==
    /\ pc = "done" /\ ~cfg.EVALUATE /\ cfg.DATASET \in Trainable
    /\ cfg.BEGIN_EPOCH < cfg.END_EPOCH
    /\ Len(trainCalls) = cfg.END_EPOCH - cfg.BEGIN_EPOCH + 1

\* ----------------------------------------------------------------------- C2
\* C2: with the evaluate flag set there is never a training call, a
\* learning-rate adjustment or a checkpoint write, test is called at most
\* once and only with epoch 0, and a run that completes has called it exactly
\* once, on the model as the resume step left it, whatever the epoch range
\* and the resume path.
Thm_C2 ==
    cfg.EVALUATE =>
        /\ trainCalls = <<>>
        /\ lrAdjusts = <<>>
        /\ writes = <<>>
        /\ evalCalls \in {<<>>, <<0>>}
        /\ pc = "done" =>
              /\ evalCalls = <<0>>
              /\ model.params =
                    IF loaded # <<>> THEN loaded[1].state_dict ELSE <<>>

Wit_C2 ==
    /\ cfg.EVALUATE /\ pc = "done" /\ loaded # <<>>
    /\ given.BEGIN_EPOCH < given.END_EPOCH
    /\ evalCalls = <<0>>

\* ----------------------------------------------------------------------- C3
\* C3: within a run the scores written to the "best" slot strictly increase
\* in write order; a record is written there only when its score is above
\* every earlier score and above the best score the run started from, so a
\* tie never overwrites; between epochs best_score is the maximum seen so
\* far, and the slot, once written by the run, holds exactly that maximum.
Thm_C3 ==
    LET L == ScoresOf(WritesTo("latest"))
        B == ScoresOf(WritesTo("best"))
    IN  /\ \A i, j \in 1..Len(B) : i < j => B[i] < B[j]
        /\ \A i \in 1..Len(writes) :
              writes[i].slot = "best" =>
                 /\ writes[i].rec.score > Seed
                 /\ \A j \in 1..(i - 2) :
                       writes[j].rec.score < writes[i].rec.score
        /\ (InLoop \/ pc = "done") =>
              /\ best_score = SeqMax(L, Seed)
              /\ (B = <<>>) <=> (SeqMax(L, Seed) = Seed)
              /\ B # <<>> =>
                    /\ Last(B) = SeqMax(L, Seed)
                    /\ fs["best"] = <<Last(WritesTo("best")).rec>>
                    /\ fs["best"][1].score = best_score

\* three epochs scoring 1, 2, 2: two writes to "best", then a tie
Wit_C3 ==
    /\ pc = "for"
    /\ ScoresOf(WritesTo("latest")) = <<1, 2, 2>>
    /\ ScoresOf(WritesTo("best")) = <<1, 2>>

Claim_C5 ==
    error = "invalid dataset" =>
        /\ ~model.built
        /\ ~optimizer.built
        /\ loaded = <<>>

\* ----------------------------------------------------------------------- C6
\* C6: with dataset ava no run completes normally, whatever the evaluate
\* flag and the epoch range, and the optimizer's learning rate is never
\* adjusted (dying on the unbound train / test name is taken as the fatal
\* failure the claim asks for).
Claim_C6 ==
    cfg.DATASET = "ava" =>
        /\ pc # "done"
        /\ lrAdjusts = <<>>

\* ----------------------------------------------------------------------- C7
\* the configured resume path names no existing regular file
NotARegularFile ==
    \/ given.RESUME_PATH \in {"", "missing.pth", "backup_dir"}
    \/ given.RESUME_PATH = "other.pth" /\ fs["other.pth"] = <<>>

\* C7: when the configured resume path names no existing regular file (unset,
\* missing, or a directory) the run never fails in the resume step and is a
\* fresh run: nothing is loaded, cfg keeps the configured BEGIN_EPOCH, after
\* the resume step the model, the optimizer and best_score are as constructed,
\* and the calls and checkpoints that follow are those of the configured
\* range on a freshly built model.
Thm_C7 ==
    NotARegularFile =>
        /\ error # "corrupt checkpoint"
        /\ loaded = <<>>
        /\ cfg = given
        /\ pc = "dataset" =>
              /\ best_score = 0
              /\ model = [built |-> TRUE, params |-> <<>>]
              /\ optimizer = [built |-> TRUE, lr |-> 0, steps |-> <<>>]
              /\ lrAdjusts = <<>> /\ trainCalls = <<>> /\ evalCalls = <<>>
              /\ writes = <<>>
        /\ ConsecutiveFrom(model.params, given.BEGIN_EPOCH)
        /\ optimizer.steps = model.params
        /\ ~cfg.EVALUATE =>
              /\ ConsecutiveFrom(lrAdjusts, given.BEGIN_EPOCH)
              /\ ConsecutiveFrom(trainCalls, given.BEGIN_EPOCH)
              /\ ConsecutiveFrom(evalCalls, given.BEGIN_EPOCH)
              /\ ConsecutiveFrom(EpochsOf(WritesTo("latest")),
                                 given.BEGIN_EPOCH)
        /\ (InLoop \/ pc = "done") =>
              best_score = SeqMax(ScoresOf(WritesTo("latest")), 0)
        /\ (pc = "done" /\ ~cfg.EVALUATE) =>
              LET all == Range(given.BEGIN_EPOCH, given.END_EPOCH) IN
              /\ trainCalls = all /\ evalCalls = all /\ lrAdjusts = all
              /\ EpochsOf(WritesTo("latest")) = all
              /\ model.params = all

Wit_C7 ==
    /\ given.RESUME_PATH = "backup_dir"
    /\ pc = "done" /\ ~cfg.EVALUATE
    /\ Len(WritesTo("latest")) >= 2
    /\ best_score > 0

\* ----------------------------------------------------------------------- C8
\* every completed epoch of the run has written exactly one record to
\* "latest": its own epoch, its evaluation score, the model and optimizer
\* state at that point; a write to "best" is a copy of the record just
\* written to "latest"
RecordsOk ==
    LET L == WritesTo("latest") IN
    /\ ConsecutiveFrom(EpochsOf(L), cfg.BEGIN_EPOCH)
    /\ InLoop => Len(L) = epoch - cfg.BEGIN_EPOCH
    /\ (pc = "done" /\ ~cfg.EVALUATE) =>
          EpochsOf(L) = Range(cfg.BEGIN_EPOCH, cfg.END_EPOCH)
    /\ L # <<>> => fs["latest"] = <<Last(L).rec>>
    /\ (pc = "for" /\ L # <<>>) =>
          Last(L).rec = State(epoch - 1, model, optimizer, score)
    /\ \A i \in 1..Len(L) :
          /\ L[i].rec.state_dict =
                (IF loaded # <<>> THEN loaded[1].state_dict ELSE <<>>)
                \o Range(cfg.BEGIN_EPOCH, L[i].rec.epoch)
          /\ L[i].rec.optimizer.lr = L[i].rec.epoch
          /\ L[i].rec.optimizer.steps = L[i].rec.state_dict
    /\ \A i \in 1..Len(writes) :
          writes[i].slot = "best" =>
             /\ i > 1
             /\ writes[i - 1].slot = "latest"
             /\ writes[i - 1].rec = writes[i].rec

\* the scores of the epochs completed before write i
PriorScores(i) ==
    {writes[j].rec.score : j \in {j \in 1..(i - 1) : writes[j].slot = "latest"}}

BestFollows(i) == i < Len(writes) /\ writes[i + 1].slot = "best"

\* the record of write i went to "best" exactly when its score is above
\* every earlier score of the run and every score in floor
BestIff(floor) ==
    \A i \in 1..Len(writes) :
        writes[i].slot = "latest" =>
            (BestFollows(i) <=>
                \A p \in PriorScores(i) \cup floor : writes[i].rec.score > p)

\* C8 as claimed: "best" is written if and only if the epoch's score exceeds
\* all prior scores of this run and the resumed score if any.
Claim_C8 ==
    /\ RecordsOk
    /\ BestIff(IF loaded # <<>> THEN {loaded[1].score} ELSE {})

\* C8 as amended: "best" is written if and only if the epoch's score exceeds
\* all prior scores of this run and the score the run started from: the
\* resumed score, or the initial best score 0 of a fresh run.
Thm_C8 ==
    /\ RecordsOk
    /\ BestIff({Seed})

\* a resumed run: an epoch above the resumed score, then a lower one
Wit_C8 ==
    /\ loaded # <<>> /\ loaded[1].score = 1
    /\ pc = "for"
    /\ ScoresOf(WritesTo("latest")) = <<2, 0>>
    /\ Len(WritesTo("best")) = 1

\* ----------------------------------------------------------------------- C9
\* C9: when train or test has raised in epoch e of the loop, the process is
\* dead with nothing left to run, no record of epoch e was written, e is the
\* last epoch started, best_score is still the maximum over the completed
\* epochs, and "latest" holds the record of epoch e - 1 if the run completed
\* an epoch and is untouched otherwise.
Thm_C9 ==
    (error = "procedure" /\ ~cfg.EVALUATE) =>
        LET L == WritesTo("latest") IN
        /\ pc = "failed"
        /\ ~ENABLED Next
        /\ \A i \in 1..Len(writes) : writes[i].rec.epoch # epoch
        /\ Last(lrAdjusts) = epoch /\ Last(trainCalls) = epoch
        /\ best_score = SeqMax(ScoresOf(L), Seed)
        /\ L # <<>> =>
              /\ fs["latest"] = <<Last(L).rec>>
              /\ Last(L).rec.epoch = epoch - 1
        /\ L = <<>> => (fs["latest"] = <<>> /\ fs["best"] = <<>>)

\* test raises in the second epoch of a run whose first epoch set a new best
Wit_C9 ==
    /\ error = "procedure" /\ ~cfg.EVALUATE
    /\ Len(WritesTo("latest")) = 1 /\ Len(WritesTo("best")) = 1
    /\ Len(evalCalls) = 2

\* ---------------------------------------------------------------------- C10
\* C10: in a run launched with the resume path on the "latest" slot that an
\* earlier run wrote, the resume step restores a best score that is at least
\* the score held in the "best" slot, and no step of the run replaces the
\* record in the "best" slot by one whose score is lower or equal.
Claim_C10 ==
    [][given.RESUME_PATH = "latest" =>
          /\ (pc = "resume" /\ loaded' # <<>> /\ fs["best"] # <<>>) =>
                best_score' >= fs["best"][1].score
          /\ (fs["best"] # <<>> /\ fs'["best"] # fs["best"]) =>
                fs'["best"][1].score > fs["best"][1].score]_vars

====
